---- MODULE Spec2Model ----
(***************************************************************************)
(* Model of src/src/context/WalletConnect.tsx: the WalletConnectContext    *)
(* provider (wallet connection, price fetch, mint workflow).               *)
(*                                                                         *)
(* Every await of the source is a step boundary: an action is one handler  *)
(* run from its start (or from the resumption of an await) up to the next  *)
(* await or to its return.  The wallet service, the contract, the toast    *)
(* utility and localStorage are the environment: what they return is       *)
(* drawn from small sets.                                                  *)
(*                                                                         *)
(* A mint closure reads the `account` and `pricePerToken` of the render    *)
(* that created it (useCallback deps, line 161); each invocation record    *)
(* therefore carries the values it was created with.                       *)
(***************************************************************************)
EXTENDS Integers, Sequences, FiniteSets, TLC

\* ---------------------------------------------------------------- bounds
MaxMints == 2        \* mint invocations that may be in flight together
MaxConnects == 2     \* connect invocations in one page life
MaxAmount == 3       \* largest amount passed to mint
MaxSupply == 3       \* allowedToExist of the contract

MintIds == 1..MaxMints
ConnIds == 1..MaxConnects
Amounts == 0..MaxAmount
Addresses == {"0xA", "0xB"}
Providers == {"MetaMask", "WalletConnect"}
TokenIds == {7, 8}

\* ------------------------------------------------- decimal numbers
\* A decimal c * 10^e.  BigNumber holds exactly this (coefficient and
\* exponent); a JS number is held by its shortest decimal form, which is
\* what String(n) and new BigNumber(n) read.  For the prices used here (at
\* most 15 significant digits) that form is the exact quotient.
Dec(c, e) == [c |-> c, e |-> e]

RECURSIVE Pow10(_)
Pow10(n) == IF n <= 0 THEN 1 ELSE 10 * Pow10(n - 1)

RECURSIVE Norm(_)
Norm(d) ==
  IF d.c = 0 THEN Dec(0, 0)
  ELSE IF d.c % 10 = 0 THEN Norm(Dec(d.c \div 10, d.e + 1))
  ELSE d

DecTimes(a, b) == Norm(Dec(a.c * b.c, a.e + b.e))

MinExp(a, b) == IF a.e < b.e THEN a.e ELSE b.e
Scaled(a, e) == a.c * Pow10(a.e - e)
DecGeq(a, b) == Scaled(a, MinExp(a, b)) >= Scaled(b, MinExp(a, b))
DecGt(a, b) == Scaled(a, MinExp(a, b)) > Scaled(b, MinExp(a, b))
DecLt(a, b) == Scaled(a, MinExp(a, b)) < Scaled(b, MinExp(a, b))

Digit(n) ==
  CASE n = 0 -> "0" [] n = 1 -> "1" [] n = 2 -> "2" [] n = 3 -> "3"
    [] n = 4 -> "4" [] n = 5 -> "5" [] n = 6 -> "6" [] n = 7 -> "7"
    [] n = 8 -> "8" [] OTHER -> "9"

RECURSIVE IntToStr(_)
IntToStr(n) == IF n < 10 THEN Digit(n) ELSE IntToStr(n \div 10) \o Digit(n % 10)

RECURSIVE Zeros(_)
Zeros(n) == IF n <= 0 THEN "" ELSE "0" \o Zeros(n - 1)

RECURSIVE NumDigits(_)
NumDigits(n) == IF n < 10 THEN 1 ELSE 1 + NumDigits(n \div 10)

\* BigNumber.prototype.toFixed(): plain notation, never exponential.
ToFixed(d) ==
  LET n == Norm(d) IN
  IF n.e >= 0 THEN IntToStr(n.c) \o Zeros(n.e)
  ELSE LET k == 0 - n.e
           ip == n.c \div Pow10(k)
           fp == n.c % Pow10(k)
       IN IntToStr(ip) \o "." \o Zeros(k - NumDigits(fp)) \o IntToStr(fp)

\* ------------------------------------------------- environment values
\* price() of the contract, in wei: 0.1 and 0.25 of the native currency.
ContractPrices == {Dec(1, 17), Dec(25, 16)}
\* getMaticBalance results, in units of the native currency.
Balances == {Dec(0, 0), Dec(3, -1), Dec(1, 0)}
SupplyValues == 0..(MaxSupply + 1)
ErrorCodes == {4, 1}
EventNames == {"accountsChanged", "chainChanged"}

\* ------------------------------------------------- account values
\* Only the address of an account object is ever read back (lines 90, 125,
\* 136); tag tells which assignment produced the object.
Undefined == [tag |-> "undefined", address |-> ""]
Empty == [tag |-> "empty", address |-> ""]
AccountInfo(a) == [tag |-> "info", address |-> a]
EventData(name, a) == [tag |-> name, address |-> a]

VARIABLES
  mounted,          \* the mount effect has run
  account,          \* useState account
  currentSubsriber, \* useState subscription handle (0: undefined)
  pricePerToken,    \* useState price, a JS number
  isMinting,        \* useState flag
  providerType,     \* localStorage key providerType ("" : absent)
  walletConnected,  \* the wallet service holds a connection
  subs,             \* subscriptions that still deliver events
  priceCall,        \* the price() call of the mount effect
  conns,            \* connect invocations
  mints,            \* mint invocations
  toast,            \* last notification of connect and the subscribers
  console           \* error codes logged by subscriberError (line 39)

vars == <<mounted, account, currentSubsriber, pricePerToken, isMinting,
          providerType, walletConnected, subs, priceCall, conns, mints, toast,
          console>>

IdleMint ==
  [pc |-> "idle", outcome |-> "none", via |-> "none", amount |-> 0,
   account |-> Undefined, price |-> Dec(0, 0), paused |-> FALSE,
   allowed |-> 0, tokensLeft |-> 0, balance |-> Dec(0, 0), calls |-> <<>>, notes |-> <<>>,
   from |-> "", value |-> "", transfer |-> "none", tokenId |-> 0, nftId |-> 0,
   retry |-> 0, retryOpen |-> FALSE]

IdleConn == [pc |-> "idle", provider |-> ""]

Notify(kind) == toast' = kind

Init ==
  /\ mounted = FALSE
  /\ account = Undefined
  /\ currentSubsriber = 0
  /\ pricePerToken = Dec(0, 0)
  /\ isMinting = FALSE
  /\ providerType \in {""} \cup Providers
  /\ walletConnected = FALSE
  /\ subs = {}
  /\ priceCall = "idle"
  /\ conns = [c \in ConnIds |-> IdleConn]
  /\ mints = [i \in MintIds |-> IdleMint]
  /\ toast = "none"
  /\ console = <<>>

\* ------------------------------------------------- the mint workflow
\* a guard that tests only for a missing account object
HasNoAccountObject(acc) == acc.tag = "undefined"

\* line 90: !account?.address
HasNoAddress(acc) == acc.address = ""

\* a paused flag that is read and not acted on
MintingPausedIgnored(v) == FALSE

\* line 100: if (isMintingPaused)
MintingPaused(v) == v = TRUE

\* line 109: const tokensLeft = allowedToExist - totalSupply
TokensLeft(allowedToExist, totalSupply) == allowedToExist - totalSupply

\* line 110: if (tokensLeft < amountOfTokensToMint)
ExceedsLeft(tokensLeft, amount) == tokensLeft < amount

\* a sold-out test that misses an exactly exhausted supply
SoldOutStrict(tokensLeft) == tokensLeft < 0

\* line 111: if (tokensLeft <= 0)
SoldOut(tokensLeft) == tokensLeft <= 0

\* a retry that asks again for the requested amount
RetryRequested(tokensLeft, amount) == amount

\* line 118: () => mint(tokensLeft)
RetryAmount(tokensLeft, amount) == tokensLeft

\* a funds test that lets a cost equal to the balance through
NotEnoughMoneyStrict(price, amount, balance) ==
  DecGt(DecTimes(price, Dec(amount, 0)), balance)

\* line 126: pricePerToken * amountOfTokensToMint >= userBalance.  The
\* product of the two JS numbers is taken exactly here; the rounding JS
\* applies to it is monotone, so it never turns a product at or above the
\* balance into one below it.
NotEnoughMoney(price, amount, balance) ==
  DecGeq(DecTimes(price, Dec(amount, 0)), balance)

\* a value left in tokens, not scaled to wei
BuyValueUnscaled(amount, price) == ToFixed(DecTimes(Dec(amount, 0), price))

\* lines 137-140: new BigNumber(amount.toString())
\*   .times(new BigNumber(pricePerToken)).times(10 ** 18).toFixed()
BuyValue(amount, price) ==
  ToFixed(DecTimes(DecTimes(Dec(amount, 0), price), Dec(1, 18)))

\* the two success branches exchanged
SuccessTypeSwapped(result) == IF result.isArray THEN "single" ELSE "multiply"

\* line 146: Array.isArray(result.events.Transfer)
SuccessType(result) == IF result.isArray THEN "multiply" ELSE "single"

\* result.events.Transfer of a completed buy: one event or an array of them
BuyResults == {[isArray |-> FALSE, tokenId |-> t] : t \in TokenIds}
                \cup {[isArray |-> TRUE, tokenId |-> 0]}

FreeMints(M) == {i \in M : mints[i].pc \in {"idle", "done"}}
NextMint(M) == CHOOSE i \in FreeMints(M) : \A j \in FreeMints(M) : i <= j
InFlight == {"paused", "allowed", "total", "balance", "buy"}

\* an entry that issues the first two reads together
NewMintParallel(amount, acc, price, via) ==
  IF acc.address = ""
  THEN [IdleMint EXCEPT !.pc = "done", !.outcome = "noaccount", !.via = via,
          !.amount = amount, !.account = acc, !.price = price,
          !.notes = <<"connect">>]
  ELSE [IdleMint EXCEPT !.pc = "paused", !.via = via, !.amount = amount,
          !.account = acc, !.price = price,
          !.calls = <<"paused", "allowedToExist">>]

\* lines 89-99: mint from its entry to the await of paused()
NewMint(amount, acc, price, via) ==
  IF HasNoAddress(acc)
  THEN [IdleMint EXCEPT !.pc = "done", !.outcome = "noaccount", !.via = via,
          !.amount = amount, !.account = acc, !.price = price,
          !.notes = <<"connect">>]
  ELSE [IdleMint EXCEPT !.pc = "paused", !.via = via, !.amount = amount,
          !.account = acc, !.price = price, !.calls = <<"paused">>]

\* line 94: setIsMinting(true), reached only past the account check
FlagAtEntry(acc) == IF HasNoAddress(acc) THEN isMinting ELSE TRUE

\* a return that leaves the flag as it is
FlagLeftSet == isMinting

\* lines 102, 121, 128, 156, 158: setIsMinting(false)
FlagAtReturn == FALSE

\* the notify and return of lines 101-103, 112-122, 127-129
Abort(m, note, outcome) ==
  [m EXCEPT !.pc = "done", !.outcome = outcome, !.notes = Append(@, note)]

\* mint(amount) called through the context value: the closure of the
\* current render, holding the current account and pricePerToken
MintCall(M, amount) ==
  /\ mounted
  /\ FreeMints(M) # {}
  /\ mints' = [mints EXCEPT ![NextMint(M)] = NewMint(amount, account, pricePerToken, "user")]
  /\ isMinting' = FlagAtEntry(account)
  /\ UNCHANGED <<mounted, account, currentSubsriber, pricePerToken, providerType,
                 walletConnected, subs, priceCall, conns, toast, console>>

\* the retry callback of the offer notification (line 118): it calls the
\* mint of the render that created the offering invocation
RetryClick(M, i) ==
  /\ mints[i].retryOpen
  /\ FreeMints(M) # {}
  /\ LET m == mints[i]
         closed == [mints EXCEPT ![i].retryOpen = FALSE]
     IN /\ mints' = [closed EXCEPT ![NextMint(M)] = NewMint(m.retry, m.account, m.price, "retry")]
        /\ isMinting' = FlagAtEntry(m.account)
  /\ UNCHANGED <<mounted, account, currentSubsriber, pricePerToken, providerType,
                 walletConnected, subs, priceCall, conns, toast, console>>

\* lines 99-107: paused() returned
PausedReturn(i, v) ==
  /\ mints[i].pc = "paused"
  /\ IF MintingPaused(v)
     THEN /\ mints' = [mints EXCEPT ![i] = Abort([@ EXCEPT !.paused = v], "paused", "paused")]
          /\ isMinting' = FlagAtReturn
     ELSE /\ mints' = [mints EXCEPT ![i].paused = v, ![i].pc = "allowed",
                                    ![i].calls = Append(@, "allowedToExist")]
          /\ UNCHANGED isMinting
  /\ UNCHANGED <<mounted, account, currentSubsriber, pricePerToken, providerType,
                 walletConnected, subs, priceCall, conns, toast, console>>

\* lines 107-108: allowedToExist() returned
AllowedReturn(i, a) ==
  /\ mints[i].pc = "allowed"
  /\ mints' = [mints EXCEPT ![i].allowed = a, ![i].pc = "total",
                            ![i].calls = Append(@, "totalSupply")]
  /\ UNCHANGED <<mounted, account, currentSubsriber, pricePerToken, isMinting,
                 providerType, walletConnected, subs, priceCall, conns, toast, console>>

\* lines 108-125: totalSupply() returned
TotalReturn(i, t) ==
  /\ mints[i].pc = "total"
  /\ LET m == mints[i]
         left == TokensLeft(m.allowed, t)
         seen == [m EXCEPT !.tokensLeft = left]
     IN IF ExceedsLeft(left, m.amount)
        THEN /\ mints' = [mints EXCEPT ![i] =
                  IF SoldOut(left)
                  THEN Abort(seen, "soldout", "soldout")
                  ELSE [Abort(seen, "offer", "offer") EXCEPT
                          !.retry = RetryAmount(left, m.amount), !.retryOpen = TRUE]]
             /\ isMinting' = FlagAtReturn
        ELSE /\ mints' = [mints EXCEPT ![i] =
                  [seen EXCEPT !.pc = "balance", !.calls = Append(@, "getMaticBalance")]]
             /\ UNCHANGED isMinting
  /\ UNCHANGED <<mounted, account, currentSubsriber, pricePerToken, providerType,
                 walletConnected, subs, priceCall, conns, toast, console>>

\* lines 125-141: getMaticBalance(account.address) returned
BalanceReturn(i, b) ==
  /\ mints[i].pc = "balance"
  /\ LET m == mints[i]
         seen == [m EXCEPT !.balance = b]
     IN IF NotEnoughMoney(m.price, m.amount, b)
        THEN /\ mints' = [mints EXCEPT ![i] = Abort(seen, "nomoney", "nomoney")]
             /\ isMinting' = FlagAtReturn
        ELSE /\ mints' = [mints EXCEPT ![i] =
                  [seen EXCEPT !.pc = "buy", !.calls = Append(@, "buy"),
                               !.from = m.account.address,
                               !.value = BuyValue(m.amount, m.price)]]
             /\ UNCHANGED isMinting
  /\ UNCHANGED <<mounted, account, currentSubsriber, pricePerToken, providerType,
                 walletConnected, subs, priceCall, conns, toast, console>>

\* lines 99, 107, 108, 125: one of the awaits before the try block rejects;
\* the promise of mint rejects and nothing after the await runs
ReadRejects(i) ==
  /\ mints[i].pc \in {"paused", "allowed", "total", "balance"}
  /\ mints' = [mints EXCEPT ![i].pc = "done", ![i].outcome = "rejected"]
  /\ UNCHANGED <<mounted, account, currentSubsriber, pricePerToken, isMinting,
                 providerType, walletConnected, subs, priceCall, conns, toast, console>>

\* lines 142-144: the transactionHash event of the pending buy
TransactionHash(i) ==
  /\ mints[i].pc = "buy"
  /\ "txhash" \notin {mints[i].notes[k] : k \in 1..Len(mints[i].notes)}
  /\ mints' = [mints EXCEPT ![i].notes = Append(@, "txhash")]
  /\ UNCHANGED <<mounted, account, currentSubsriber, pricePerToken, isMinting,
                 providerType, walletConnected, subs, priceCall, conns, toast, console>>

\* lines 145-156: the buy completed
BuyComplete(i, result) ==
  /\ mints[i].pc = "buy"
  /\ mints' = [mints EXCEPT ![i] =
        [Abort(@, SuccessType(result), "success") EXCEPT
           !.transfer = IF result.isArray THEN "array" ELSE "one",
           !.tokenId = result.tokenId,
           !.nftId = IF SuccessType(result) = "single" THEN result.tokenId ELSE 0]]
  /\ isMinting' = FlagAtReturn
  /\ UNCHANGED <<mounted, account, currentSubsriber, pricePerToken, providerType,
                 walletConnected, subs, priceCall, conns, toast, console>>

\* lines 157-159: the buy rejected (or failed on chain); the catch block runs
BuyFail(i) ==
  /\ mints[i].pc = "buy"
  /\ mints' = [mints EXCEPT ![i].pc = "done", ![i].outcome = "caught"]
  /\ isMinting' = FlagAtReturn
  /\ UNCHANGED <<mounted, account, currentSubsriber, pricePerToken, providerType,
                 walletConnected, subs, priceCall, conns, toast, console>>

\* ------------------------------------------------- connection and events
\* line 170: price / 10 ** 18 on the wei amount price() returned
PriceInTokens(price) == Norm(Dec(price.c, price.e - 18))

\* a handler that takes every event for a change of account
IsAnyEvent(name) == TRUE

\* line 32: data.name === 'accountsChanged'
IsAccountsChanged(name) == name = "accountsChanged"

\* a test for another error code
IsOtherCode(code) == code = 1

\* line 40: err.code === 4
IsWrongNetwork(code) == code = 4

FreeConns(C) == {c \in C : conns[c].pc = "idle"}
NextConn(C) == CHOOSE c \in FreeConns(C) : \A d \in FreeConns(C) : c <= d

\* lines 51-55: connect from its entry to the await of initWalletConnect;
\* hasEthereum is window.ethereum being present
StartConnect(c, provider, hasEthereum) ==
  /\ conns' = [conns EXCEPT ![c] = [pc |-> "init", provider |-> provider]]
  /\ IF provider = "MetaMask" /\ ~hasEthereum
     THEN Notify("installMetaMask")
     ELSE UNCHANGED toast

\* lines 164-177: the mount effect
Mount(hasEthereum) ==
  /\ ~mounted
  /\ mounted' = TRUE
  /\ priceCall' = "pending"
  /\ IF providerType # ""
     THEN StartConnect(1, providerType, hasEthereum)
     ELSE UNCHANGED <<conns, toast>>
  /\ UNCHANGED <<account, currentSubsriber, pricePerToken, isMinting, providerType,
                 walletConnected, subs, mints, console>>

\* line 170: price() resolved
PriceReturn(price) ==
  /\ priceCall = "pending"
  /\ priceCall' = "done"
  /\ pricePerToken' = PriceInTokens(price)
  /\ UNCHANGED <<mounted, account, currentSubsriber, isMinting, providerType,
                 walletConnected, subs, conns, mints, toast, console>>

\* lines 167-170: price() rejected; no handler, the price stays as it is
PriceFail ==
  /\ priceCall = "pending"
  /\ priceCall' = "failed"
  /\ UNCHANGED <<mounted, account, currentSubsriber, pricePerToken, isMinting,
                 providerType, walletConnected, subs, conns, mints, toast, console>>

\* connect(provider) called through the context value
ConnectCall(C, provider, hasEthereum) ==
  /\ mounted
  /\ FreeConns(C) # {}
  /\ StartConnect(NextConn(C), provider, hasEthereum)
  /\ UNCHANGED <<mounted, account, currentSubsriber, pricePerToken, isMinting,
                 providerType, walletConnected, subs, priceCall, mints, console>>

\* lines 55-59: initWalletConnect resolved
InitReturn(c, connected) ==
  /\ conns[c].pc = "init"
  /\ IF connected
     THEN /\ conns' = [conns EXCEPT ![c].pc = "getAccount"]
          /\ walletConnected' = TRUE
     ELSE /\ conns' = [conns EXCEPT ![c].pc = "done"]
          /\ UNCHANGED walletConnected
  /\ UNCHANGED <<mounted, account, currentSubsriber, pricePerToken, isMinting,
                 providerType, subs, priceCall, mints, toast, console>>

\* line 55: initWalletConnect rejected, outside the try block
InitFail(c) ==
  /\ conns[c].pc = "init"
  /\ conns' = [conns EXCEPT ![c].pc = "done"]
  /\ UNCHANGED <<mounted, account, currentSubsriber, pricePerToken, isMinting,
                 providerType, walletConnected, subs, priceCall, mints, toast, console>>

\* an address test that is always passed
AnyAddress(address) == TRUE

\* line 66: if (accountInfo.address)
HasAddressString(address) == address # ""

\* lines 59-72: getAccount resolved with an address string, possibly empty;
\* accountInfo.type is the provider this connect initialised
GetAccountReturn(c, address) ==
  /\ conns[c].pc = "getAccount"
  /\ conns' = [conns EXCEPT ![c].pc = "done"]
  /\ Notify("connected")
  /\ IF HasAddressString(address)
     THEN /\ account' = AccountInfo(address)
          /\ providerType' = conns[c].provider
     ELSE UNCHANGED <<account, providerType>>
  /\ subs' = subs \cup {c}
  /\ currentSubsriber' = c
  /\ UNCHANGED <<mounted, pricePerToken, isMinting, walletConnected, priceCall, mints, console>>

\* lines 59-75: getAccount rejected, or accountInfo carries no address string
\* (address.slice throws); the catch block logs and nothing else runs
GetAccountFail(c) ==
  /\ conns[c].pc = "getAccount"
  /\ conns' = [conns EXCEPT ![c].pc = "done"]
  /\ UNCHANGED <<mounted, account, currentSubsriber, pricePerToken, isMinting,
                 providerType, walletConnected, subs, priceCall, mints, toast, console>>

\* lines 81-86: disconnect
Disconnect ==
  /\ mounted
  /\ account' = Empty
  /\ providerType' = ""
  /\ subs' = subs \ {currentSubsriber}
  /\ walletConnected' = FALSE
  /\ UNCHANGED <<mounted, currentSubsriber, pricePerToken, isMinting, priceCall,
                 conns, mints, toast, console>>

\* lines 31-36: subscriberSuccess, called by an active subscription
SubscriberSuccess(s, name, address) ==
  /\ s \in subs
  /\ IF IsAccountsChanged(name)
     THEN /\ account' = EventData(name, address)
          /\ Notify("walletChanged")
     ELSE UNCHANGED <<account, toast>>
  /\ UNCHANGED <<mounted, currentSubsriber, pricePerToken, isMinting, providerType,
                 walletConnected, subs, priceCall, conns, mints, console>>

\* lines 38-48: subscriberError; an error ends the rxjs subscription
SubscriberError(s, code) ==
  /\ s \in subs
  /\ console' = Append(console, code)
  /\ subs' = subs \ {s}
  /\ IF IsWrongNetwork(code)
     THEN /\ walletConnected' = FALSE
          /\ Notify("wrongNetwork")
          /\ account' = Empty
     ELSE UNCHANGED <<walletConnected, toast, account>>
  /\ UNCHANGED <<mounted, currentSubsriber, pricePerToken, isMinting, providerType,
                 priceCall, conns, mints>>

\* ------------------------------------------------- specification
\* The steps of the provider with mint invocations M and connect
\* invocations C.
NextOver(M, C) ==
  \/ \E h \in BOOLEAN : Mount(h)
  \/ \E p \in ContractPrices : PriceReturn(p)
  \/ PriceFail
  \/ \E p \in Providers, h \in BOOLEAN : ConnectCall(C, p, h)
  \/ \E c \in C, ok \in BOOLEAN : InitReturn(c, ok)
  \/ \E c \in C : InitFail(c)
  \/ \E c \in C, a \in Addresses \cup {""} : GetAccountReturn(c, a)
  \/ \E c \in C : GetAccountFail(c)
  \/ Disconnect
  \/ \E s \in C, n \in EventNames, a \in Addresses : SubscriberSuccess(s, n, a)
  \/ \E s \in C, code \in ErrorCodes : SubscriberError(s, code)
  \/ \E a \in Amounts : MintCall(M, a)
  \/ \E i \in M : RetryClick(M, i)
  \/ \E i \in M, v \in BOOLEAN : PausedReturn(i, v)
  \/ \E i \in M : AllowedReturn(i, MaxSupply)
  \/ \E i \in M, t \in SupplyValues : TotalReturn(i, t)
  \/ \E i \in M, b \in Balances : BalanceReturn(i, b)
  \/ \E i \in M : ReadRejects(i)
  \/ \E i \in M : TransactionHash(i)
  \/ \E i \in M, r \in BuyResults : BuyComplete(i, r)
  \/ \E i \in M : BuyFail(i)

Next == NextOver(MintIds, ConnIds)

\* The whole provider.
Spec == Init /\ [][Next]_vars

\* One mint invocation at a time over one connect invocation.  A mint
\* invocation reads nothing another invocation writes (isMinting is only
\* written), and reads of the provider only account and pricePerToken at its
\* entry, so what one invocation does is the same here as in Spec.
SpecMint == Init /\ [][NextOver({1}, {1})]_vars

\* The connection alone, with every connect invocation of ConnIds.  No step
\* of it reads mints or isMinting, and no mint step writes what it reads, so
\* what the connection does is the same here as in Spec.
NextWallet ==
  \/ \E h \in BOOLEAN : Mount(h)
  \/ \E p \in ContractPrices : PriceReturn(p)
  \/ PriceFail
  \/ \E p \in Providers, h \in BOOLEAN : ConnectCall(ConnIds, p, h)
  \/ \E c \in ConnIds, ok \in BOOLEAN : InitReturn(c, ok)
  \/ \E c \in ConnIds : InitFail(c)
  \/ \E c \in ConnIds, a \in Addresses \cup {""} : GetAccountReturn(c, a)
  \/ \E c \in ConnIds : GetAccountFail(c)
  \/ Disconnect
  \/ \E s \in ConnIds, n \in EventNames, a \in Addresses : SubscriberSuccess(s, n, a)
  \/ \E s \in ConnIds, code \in ErrorCodes : SubscriberError(s, code)

SpecWallet == Init /\ [][NextWallet]_vars

\* A page load with a stored providerType on which connect is never called
\* by the user: the only connect invocation is the one the mount effect
\* starts, so it precedes every disconnect.
InitReload == Init /\ providerType # ""

NextReload ==
  \/ \E h \in BOOLEAN : Mount(h)
  \/ \E p \in ContractPrices : PriceReturn(p)
  \/ PriceFail
  \/ \E ok \in BOOLEAN : InitReturn(1, ok)
  \/ InitFail(1)
  \/ \E a \in Addresses \cup {""} : GetAccountReturn(1, a)
  \/ GetAccountFail(1)
  \/ Disconnect
  \/ \E n \in EventNames, a \in Addresses : SubscriberSuccess(1, n, a)
  \/ \E code \in ErrorCodes : SubscriberError(1, code)

SpecReload == InitReload /\ [][NextReload]_vars

\* Mint invocations of MintIds that overlap, over one connection to one
\* address and one contract price; requests of 1 and 2 tokens against a
\* supply of 1 or 2 left.
NextOverlap ==
  \/ \E h \in BOOLEAN : Mount(h)
  \/ PriceReturn(Dec(1, 17))
  \/ \E h \in BOOLEAN : ConnectCall({1}, "MetaMask", h)
  \/ InitReturn(1, TRUE)
  \/ GetAccountReturn(1, "0xA")
  \/ \E a \in {1, 2} : MintCall(MintIds, a)
  \/ \E i \in MintIds : RetryClick(MintIds, i)
  \/ \E i \in MintIds, v \in BOOLEAN : PausedReturn(i, v)
  \/ \E i \in MintIds : AllowedReturn(i, MaxSupply)
  \/ \E i \in MintIds, t \in {MaxSupply - 2, MaxSupply - 1} : TotalReturn(i, t)
  \/ \E i \in MintIds : BalanceReturn(i, Dec(1, 0))
  \/ \E i \in MintIds : ReadRejects(i)
  \/ \E i \in MintIds : TransactionHash(i)
  \/ \E i \in MintIds : BuyComplete(i, [isArray |-> TRUE, tokenId |-> 0])
  \/ \E i \in MintIds : BuyFail(i)

SpecOverlap == Init /\ [][NextOverlap]_vars

\* ------------------------------------------------- properties
Notes(m) == {m.notes[k] : k \in 1..Len(m.notes)}
Calls(m) == {m.calls[k] : k \in 1..Len(m.calls)}
LastNote(m) == IF m.notes = <<>> THEN "none" ELSE m.notes[Len(m.notes)]
SuccessNotes(m) == {k \in 1..Len(m.notes) : m.notes[k] \in {"single", "multiply"}}
Cost(m) == Dec(m.price.c * m.amount, m.price.e)

\* an invocation of mint enters slot i in this step
Entered(i) ==
  /\ mints[i].pc \in {"idle", "done"}
  /\ mints'[i] # mints[i]
  /\ mints'[i].pc = "paused" \/ mints'[i].outcome = "noaccount"

\* the invocation in slot i returns in this step, past its first await
Returned(i) == mints[i].pc \in InFlight /\ mints'[i].pc = "done"

\* the supply check of lines 109-110 has run in the invocation
LeftKnown(m) == m.pc \in {"balance", "buy"} \/ m.outcome \in {"soldout", "offer", "nomoney", "success", "caught"}
                  \/ (m.outcome = "rejected" /\ "getMaticBalance" \in Calls(m))

\* the balance check of line 126 has run in the invocation
BalanceKnown(m) == m.pc = "buy" \/ m.outcome \in {"nomoney", "success", "caught"}

\* C1: an invocation whose paused() read returned true has made no call but
\* paused(), has submitted no buy, and has ended with the one notification
\* 'Minting is paused now!'.
C1_PausedSubmitsNothing ==
  \A i \in MintIds :
    mints[i].paused =>
      /\ mints[i].pc = "done"
      /\ mints[i].calls = <<"paused">>
      /\ mints[i].value = ""
      /\ mints[i].notes = <<"paused">>

C1_Witness ==
  \E i \in MintIds : mints[i].paused /\ mints[i].outcome = "paused" /\ mints[i].amount > 0

C3_OfferState ==
  \A i \in MintIds :
    (mints[i].tokensLeft > 0 /\ mints[i].tokensLeft < mints[i].amount) =>
      /\ mints[i].pc = "done" /\ mints[i].outcome = "offer"
      /\ "buy" \notin Calls(mints[i]) /\ mints[i].value = ""
      /\ mints[i].notes = <<"offer">>
      /\ mints[i].retry = mints[i].tokensLeft

C3_RetryStep ==
  \A i \in MintIds :
    (Entered(i) /\ mints'[i].via = "retry") =>
      \E j \in MintIds :
        /\ mints[j].retryOpen
        /\ j = i \/ ~mints'[j].retryOpen
        /\ mints[j].tokensLeft > 0 /\ mints[j].tokensLeft < mints[j].amount
        /\ mints'[i].amount = mints[j].tokensLeft

C3_RetryIsRemaining == []C3_OfferState /\ [][C3_RetryStep]_vars

C3_Witness ==
  \E i \in MintIds : mints[i].via = "retry" /\ mints[i].pc = "paused" /\ mints[i].amount = 2

\* C4 as stated: whenever remaining <= 0 the invocation ends sold out, for
\* every requested amount.
C4_SoldOutForEveryAmount ==
  \A i \in MintIds :
    (LeftKnown(mints[i]) /\ mints[i].tokensLeft <= 0) =>
      /\ mints[i].outcome = "soldout"
      /\ mints[i].notes = <<"soldout">>
      /\ ~mints[i].retryOpen
      /\ "buy" \notin Calls(mints[i])

\* C4 as amended: when remaining <= 0 and the requested amount exceeds the
\* remaining one, the invocation notifies sold out, offers no retry and
\* submits no buy.
C4_SoldOutWhenExceeding ==
  \A i \in MintIds :
    (LeftKnown(mints[i]) /\ mints[i].tokensLeft <= 0
       /\ mints[i].amount > mints[i].tokensLeft) =>
      /\ mints[i].pc = "done" /\ mints[i].outcome = "soldout"
      /\ mints[i].notes = <<"soldout">>
      /\ ~mints[i].retryOpen /\ mints[i].retry = 0
      /\ "buy" \notin Calls(mints[i]) /\ mints[i].value = ""

C4_Witness ==
  \E i \in MintIds :
    mints[i].outcome = "soldout" /\ mints[i].tokensLeft = 0 /\ mints[i].amount = 1

C6_ValueIsExactWei ==
  \A i \in MintIds :
    "buy" \in Calls(mints[i]) =>
      /\ mints[i].price.e >= -18
      /\ mints[i].value =
           IF mints[i].amount * mints[i].price.c = 0 THEN "0"
           ELSE IntToStr(mints[i].amount * mints[i].price.c) \o Zeros(18 + mints[i].price.e)
      /\ (mints[i].amount = 3 /\ mints[i].price = Dec(1, -1)) =>
           mints[i].value = "300000000000000000"
      /\ (mints[i].amount = 2 /\ mints[i].price = Dec(25, -2)) =>
           mints[i].value = "500000000000000000"

C6_Witness ==
  \E i \in MintIds :
    /\ mints[i].pc = "buy" /\ mints[i].amount = 3 /\ mints[i].price = Dec(1, -1)
    /\ mints[i].value = "300000000000000000"

\* C7: a completed buy has emitted exactly one success notification, "single"
\* with the token id of the one Transfer event or "multiply" for an array of
\* them; an invocation that ended otherwise has emitted none.
C7_OneSuccessNotification ==
  \A i \in MintIds :
    /\ mints[i].outcome = "success" =>
         /\ Cardinality(SuccessNotes(mints[i])) = 1
         /\ mints[i].transfer = "one" =>
              LastNote(mints[i]) = "single" /\ mints[i].nftId = mints[i].tokenId
         /\ mints[i].transfer = "array" => LastNote(mints[i]) = "multiply"
    /\ mints[i].outcome # "success" => SuccessNotes(mints[i]) = {}

C7_Witness ==
  \E i \in MintIds :
    /\ mints[i].outcome = "success" /\ mints[i].transfer = "one"
    /\ mints[i].notes = <<"txhash", "single">> /\ mints[i].nftId = 8

\* C8 as stated: a failure at any await of mint is caught, notifies nothing
\* and leaves isMinting false.
C8_EveryFailureClearsFlag ==
  [][\A i \in MintIds :
       (Returned(i) /\ mints'[i].outcome \in {"rejected", "caught"}) =>
         /\ mints'[i].notes = mints[i].notes
         /\ isMinting' = FALSE]_vars

\* C9: an invocation that returns on paused, sold out, the retry offer or
\* not enough money has emitted exactly one notification, has submitted no
\* buy and leaves isMinting false.
C9_BusinessFailureReturns ==
  [][\A i \in MintIds :
       (Returned(i) /\ mints'[i].outcome \in {"paused", "soldout", "offer", "nomoney"}) =>
         /\ mints'[i].notes = <<mints'[i].outcome>>
         /\ "buy" \notin Calls(mints'[i]) /\ mints'[i].value = ""
         /\ isMinting' = FALSE]_vars

C9_Witness ==
  \E i \in MintIds :
    /\ mints[i].outcome = "nomoney" /\ mints[i].notes = <<"nomoney">>
    /\ ~isMinting

\* C10: an error with code 4 on the event subscription resets the wallet
\* connection, clears account (a mint called next ends on the connect prompt)
\* and notifies the wrong network; an error with another code leaves account
\* and the connection as they were.
C10_WrongNetworkDisconnects ==
  [][Len(console') > Len(console) =>
       IF console'[Len(console')] = 4
       THEN /\ ~walletConnected'
            /\ account' = Empty
            /\ toast' = "wrongNetwork"
            /\ \A a \in Amounts :
                 NewMint(a, account', pricePerToken', "user").notes = <<"connect">>
       ELSE /\ account' = account
            /\ walletConnected' = walletConnected
            /\ toast' = toast]_vars

C10_Witness ==
  /\ console # <<>> /\ console[Len(console)] = 4
  /\ toast = "wrongNetwork" /\ account = Empty /\ ~walletConnected
  /\ \E i \in MintIds : mints[i].outcome = "noaccount"

\* the order of the external calls of mint (lines 99, 107, 108, 125, 133)
CallOrder == <<"paused", "allowedToExist", "totalSupply", "getMaticBalance", "buy">>

\* this step is subscriberError logging an error with the given code
ErrorLogged(code) == Len(console') > Len(console) /\ console'[Len(console')] = code

\* this step is disconnect changing something
DisconnectStep ==
  /\ console' = console /\ conns' = conns
  /\ account' = Empty /\ ~walletConnected'
  /\ <<account, providerType, walletConnected, subs>>
       # <<account', providerType', walletConnected', subs'>>

\* this step is the mount effect
MountStep == ~mounted /\ mounted'

\* C11: the calls of one invocation are a prefix of paused, allowedToExist,
\* totalSupply, getMaticBalance, buy; the invocation waits on the last call
\* it issued and on no other, and an invocation that returned on a check has
\* issued no call past that check.
C11_CallsInOrder ==
  \A i \in MintIds :
    LET m == mints[i]
        n == Len(m.calls)
    IN /\ n <= Len(CallOrder)
       /\ m.calls = SubSeq(CallOrder, 1, n)
       /\ m.pc \in InFlight => m.pc = "paused" <=> n = 1
       /\ m.pc \in InFlight => m.pc = "allowed" <=> n = 2
       /\ m.pc \in InFlight => m.pc = "total" <=> n = 3
       /\ m.pc \in InFlight => m.pc = "balance" <=> n = 4
       /\ m.pc \in InFlight => m.pc = "buy" <=> n = 5
       /\ m.outcome = "noaccount" => n = 0
       /\ m.outcome = "paused" => n = 1
       /\ m.outcome \in {"soldout", "offer"} => n = 3
       /\ m.outcome = "nomoney" => n = 4
       /\ m.outcome \in {"success", "caught"} => n = 5

C11_Witness ==
  \E i \in MintIds : mints[i].pc = "buy" /\ mints[i].calls = CallOrder

\* the key is written only by a connect whose getAccount returned an
\* address, with the provider of that connect; it is removed by disconnect
\* and by nothing else; the mount effect starts connect exactly when the key
\* is present
KeyMechanics ==
  /\ (providerType' # providerType /\ providerType' # "") =>
        \E c \in ConnIds :
          /\ conns[c].pc = "getAccount" /\ conns'[c].pc = "done"
          /\ providerType' = conns[c].provider
          /\ account'.tag = "info" /\ account'.address # ""
  /\ (\E c \in ConnIds : conns[c].pc = "getAccount" /\ conns'[c].pc = "done"
                           /\ account.address = "" /\ account'.address = "") =>
        providerType' = providerType
  /\ DisconnectStep => providerType' = ""
  /\ (providerType # "" /\ providerType' = "") => DisconnectStep
  /\ MountStep => /\ conns'[1].pc = "init" <=> providerType # ""
                  /\ providerType # "" => conns'[1].provider = providerType

\* C12 as stated: the key mechanics, and the key is absent after a
\* disconnect and after a forced wrong-network disconnect.
C12_KeyMeansConnected ==
  [][KeyMechanics /\ (ErrorLogged(4) => providerType' = "")]_vars

\* C12 as amended: the key mechanics, and a forced wrong-network disconnect
\* leaves the key as it was.
C12_KeyMechanicsHold ==
  [][KeyMechanics /\ (\A code \in ErrorCodes : ErrorLogged(code) => providerType' = providerType)]_vars

C12_Witness ==
  /\ conns[1].pc = "done" /\ conns[2].pc = "done"
  /\ conns[1].provider # conns[2].provider
  /\ providerType = conns[2].provider /\ currentSubsriber = 2
  /\ account.tag = "info"

\* C13: at most one subscription delivers events, and it is the one the
\* handle holds.
C13_OneSubscription ==
  Cardinality(subs) <= 1 /\ subs \subseteq {currentSubsriber}

\* C14: isMinting is true while any invocation of mint is in flight.
C14_FlagWhileInFlight ==
  \A i \in MintIds : mints[i].pc \in InFlight => isMinting

\* C15: the from address of a buy is the address of the account connected
\* when the buy is submitted.
C15_BuyFromConnectedAccount ==
  [][\A i \in MintIds :
       (mints[i].pc = "balance" /\ mints'[i].pc = "buy") =>
         /\ account'.address # ""
         /\ mints'[i].from = account'.address]_vars

\* C16, on a page load where connect is not called again: once disconnect
\* has removed the key, account keeps no address and the key stays absent.
C16_DisconnectStays ==
  [][providerType = "" => (account'.address = "" /\ providerType' = "")]_vars

\* C17: no buy is submitted by an invocation that holds the initial price 0,
\* and no buy of one token or more carries the value 0.
C17_NoBuyAtInitialPrice ==
  \A i \in MintIds :
    "buy" \in Calls(mints[i]) =>
      /\ mints[i].price # Dec(0, 0)
      /\ mints[i].amount > 0 => mints[i].value # "0"

\* C18: subscriberSuccess changes state only for 'accountsChanged', when it
\* replaces account by the event data and notifies 'Wallet changed'; for any
\* other name nothing changes.
C18_OnlyAccountsChanged ==
  [][/\ (account' # account /\ account'.tag \notin {"empty", "info"}) =>
          /\ account'.tag = "accountsChanged"
          /\ account'.address \in Addresses
          /\ toast' = "walletChanged"
          /\ UNCHANGED <<mounted, currentSubsriber, pricePerToken, isMinting,
                         providerType, walletConnected, subs, priceCall, conns,
                         mints, console>>
     /\ \A s \in ConnIds, n \in EventNames, a \in Addresses :
          SubscriberSuccess(s, n, a) =>
            IF n = "accountsChanged"
            THEN account' = [tag |-> n, address |-> a] /\ toast' = "walletChanged"
            ELSE UNCHANGED vars]_vars

C18_Witness ==
  /\ account = [tag |-> "accountsChanged", address |-> "0xB"]
  /\ toast = "walletChanged"
  /\ isMinting /\ providerType # ""

====
